---------------------------- MODULE Spec2Model ----------------------------
(***************************************************************************)
(* A model of nettest's test-execution engine (nettest.go): runTests, the  *)
(* HTTP probe testHTTPConnection and the TCP probe testTCPConnection       *)
(* (specification Spec), and of parseConfig (specification ParseSpec).     *)
(*                                                                         *)
(* Go strings are modelled as sequences of one-character strings, so that  *)
(* strings.ToLower, strings.HasPrefix, fmt.Sprintf and substring           *)
(* containment are computed character by character.  The network (DNS,     *)
(* TCP dial, HTTP round trip, body read) and the clock are the             *)
(* environment: each probe draws their outcomes nondeterministically.      *)
(***************************************************************************)
EXTENDS Integers, Sequences, FiniteSets, TLC

VARIABLES
    config,     \* TestConfig.Config: the ordered target list given to runTests
    timeout,    \* the package variable `timeout` (the -timeout flag)
    testNr,     \* index of the next element of the range loop of runTests
    results,    \* the local slice `results` of runTests
    pc,         \* "loop" while runTests iterates, "done" once it has returned
    ioLog,      \* every network operation performed so far, in order
    held,       \* connections / response bodies opened and not yet closed
    fileLocation,   \* the argument of parseConfig (the -config flag)
    source,     \* what lies at fileLocation: readable or not, and its content
    parseErr    \* the error returned by parseConfig, <<>> for nil

parseVars == <<fileLocation, source, parseErr>>

vars == <<config, timeout, testNr, results, pc, ioLog, held,
          fileLocation, source, parseErr>>

-----------------------------------------------------------------------------
(* Bounds *)

MaxTargets == 2

-----------------------------------------------------------------------------
(* Strings *)

UpperCase == <<"A","B","C","D","E","F","G","H","I","J","K","L","M",
               "N","O","P","Q","R","S","T","U","V","W","X","Y","Z">>

LowerCase == <<"a","b","c","d","e","f","g","h","i","j","k","l","m",
               "n","o","p","q","r","s","t","u","v","w","x","y","z">>

ToLowerChar(c) ==
    IF \E i \in 1..26 : UpperCase[i] = c
    THEN LowerCase[CHOOSE i \in 1..26 : UpperCase[i] = c]
    ELSE c

\* strings.ToLower
ToLower(s) == [i \in 1..Len(s) |-> ToLowerChar(s[i])]

\* strings.HasPrefix
HasPrefix(s, prefix) ==
    /\ Len(s) >= Len(prefix)
    /\ SubSeq(s, 1, Len(prefix)) = prefix

\* strings.Contains
Contains(s, sub) ==
    \E i \in 0..(Len(s) - Len(sub)) : SubSeq(s, i + 1, i + Len(sub)) = sub

Digits == <<"0","1","2","3","4","5","6","7","8","9">>

RECURSIVE NatToStr(_)
NatToStr(n) ==
    IF n < 10 THEN <<Digits[n + 1]>>
    ELSE NatToStr(n \div 10) \o <<Digits[(n % 10) + 1]>>

\* strconv.Itoa, and the %d verb of fmt
Itoa(n) == IF n < 0 THEN <<"-">> \o NatToStr(0 - n) ELSE NatToStr(n)

\* the fraction printed by time.Duration.String for n thousandths, 0 < n <
\* 1000: three digits with the trailing zeros dropped
RECURSIVE TrimZeros(_)
TrimZeros(s) ==
    IF s # <<>> /\ s[Len(s)] = "0" THEN TrimZeros(SubSeq(s, 1, Len(s) - 1))
    ELSE s

Fraction(n) ==
    TrimZeros(<<Digits[(n \div 100) + 1], Digits[((n \div 10) % 10) + 1],
                Digits[(n % 10) + 1]>>)

\* time.Duration.String, for a duration of a whole number of milliseconds
\* below one minute
DurationString(ms) ==
    IF ms = 0 THEN <<"0","s">>
    ELSE IF ms < 0 THEN <<"-">> \o NatToStr(0 - ms) \o <<"m","s">>
    ELSE IF ms < 1000 THEN NatToStr(ms) \o <<"m","s">>
    ELSE IF ms % 1000 = 0 THEN NatToStr(ms \div 1000) \o <<"s">>
    ELSE NatToStr(ms \div 1000) \o <<".">> \o Fraction(ms % 1000) \o <<"s">>

-----------------------------------------------------------------------------
(* Data types *)

\* type Configuration struct
Configuration(name, host, path, port, proto, tmo, capture) ==
    [NetworkName |-> name, Host |-> host, Path |-> path, Port |-> port,
     Proto |-> proto, Timeout |-> tmo, CaptureBody |-> capture]

\* the zero value Configuration{}
ZeroConfiguration == Configuration(<<>>, <<>>, <<>>, 0, <<>>, 0, FALSE)

\* the zero value ResponseDetails{}
ZeroResponseDetails ==
    [Request |-> ZeroConfiguration, Success |-> FALSE, Status |-> 0,
     FailureMessage |-> <<>>, Body |-> <<>>, Time |-> <<>>,
     IPResolvedStatus |-> <<>>]

-----------------------------------------------------------------------------
(* Inputs *)

HostOK  == <<"a",".","i","o">>
HostBad == <<"b"," ","d">>           \* a space: not a valid URL host

Name1 == <<"n","1">>
Name2 == <<"n","2">>
Name3 == <<"n","3">>

ProtoTcp   == <<"t","c","p">>
ProtoTcpMx == <<"T","c","p">>
ProtoHttp  == <<"h","t","t","p">>
ProtoHTTPS == <<"H","T","T","P","S">>
ProtoFtp   == <<"f","t","p">>
ProtoFtpMx == <<"F","t","p">>

PathEmpty == <<>>
PathFoo   == <<"f","o","o">>
PathBar   == <<"/","b","a","r">>

\* The targets a configuration file may list: each protocol in lower and
\* mixed case, timeouts unset (0), set (5) and negative, the three shapes of
\* path, both capture settings, and a host that is no valid URL host.
Targets ==
    { Configuration(Name1, HostOK,  PathEmpty, 80,  ProtoTcp,   0,  FALSE),
      Configuration(Name2, HostOK,  PathEmpty, 443, ProtoTcpMx, 5,  FALSE),
      Configuration(Name3, HostOK,  PathFoo,   80,  ProtoTcp,   -1, TRUE),
      Configuration(Name1, HostOK,  PathEmpty, 80,  ProtoHttp,  0,  FALSE),
      Configuration(Name2, HostOK,  PathFoo,   443, ProtoHTTPS, 5,  TRUE),
      Configuration(Name3, HostOK,  PathBar,   80,  ProtoHttp,  -1, TRUE),
      Configuration(Name1, HostBad, PathFoo,   80,  ProtoHttp,  0,  TRUE),
      Configuration(Name2, HostOK,  PathEmpty, 80,  ProtoFtp,   0,  FALSE),
      Configuration(Name3, HostBad, PathBar,   21,  ProtoFtpMx, 5,  TRUE) }

\* the default of the -timeout flag
DefaultTimeout == 10

\* values of the package variable timeout: the default when -timeout is not
\* given, 3 when the program is run with -timeout 3
TimeoutFlags == { DefaultTimeout, 3 }

RECURSIVE SeqsOfLen(_, _)
SeqsOfLen(S, n) ==
    IF n = 0 THEN { <<>> }
    ELSE { Append(s, x) : s \in SeqsOfLen(S, n - 1), x \in S }

-----------------------------------------------------------------------------
(* Environment: what the network may answer.  Every answer carries the    *)
(* wall-clock time, in milliseconds, the operation took; the time between *)
(* time.Now() and time.Since() is the sum over the operations in between. *)

ErrRefused == <<"c","o","n","n","e","c","t","i","o","n"," ","r","e","f","u","s","e","d">>
ErrTimeout == <<"i","/","o"," ","t","i","m","e","o","u","t">>
ErrNoHost  == <<"n","o"," ","s","u","c","h"," ","h","o","s","t">>
ErrEOF     == <<"u","n","e","x","p","e","c","t","e","d"," ","E","O","F">>

\* the content the endpoint serves
Payload == <<"o","k">>

StatusCodes == { 200, 404 }

AddrText == <<"1","0",".","0",".","0",".","1">>

\* the fixed text stored when the IPv4 lookup fails
ResolveFailed ==
    <<"F","a","i","l","e","d"," ","t","o"," ","r","e","s","o","l","v","e"," ",
      "I","P"," ","f","r","o","m"," ","D","N","S",".">>

\* (*net.IPAddr)(nil).String()
NilAddrText == <<"<","n","i","l",">">>

\* net.ResolveIPAddr("ip4", host): an address, or an error and a nil address
DNSOutcomes == { [err |-> <<>>,      addr |-> AddrText,    ms |-> 1],
                 [err |-> ErrNoHost, addr |-> NilAddrText, ms |-> 0] }

\* net.DialTimeout: nil error (<<>>) or an error text.  A negative timeout
\* is a deadline already past, so the dial can only time out.
DialOutcomes(tmo) ==
    IF tmo < 0
    THEN { [err |-> ErrTimeout, ms |-> 0] }
    ELSE { [err |-> <<>>, ms |-> 88], [err |-> ErrRefused, ms |-> 0] }

\* client.Do: a transport error, or a response with some status code
RoundTripOutcomes ==
    { [err |-> ErrRefused, StatusCode |-> 0, ms |-> 0] }
    \cup { [err |-> <<>>, StatusCode |-> c, ms |-> 88] : c \in StatusCodes }

\* ioutil.ReadAll(resp.Body): the whole payload, or the bytes read before
\* the read failed together with the error
ReadOutcomes ==
    { [data |-> Payload, err |-> <<>>, ms |-> 2] }
    \cup { [data |-> SubSeq(Payload, 1, 1), err |-> ErrEOF, ms |-> 1500] }

\* one entry of ioLog
IOEvent(nr, op, addr, tmo, err, code) ==
    [nr |-> nr, op |-> op, addr |-> addr, timeout |-> tmo, err |-> err,
     code |-> code]

-----------------------------------------------------------------------------
(* Library functions *)

\* net.JoinHostPort
JoinHostPort(host, port) ==
    IF Contains(host, <<":">>) \/ Contains(host, <<"%">>)
    THEN <<"[">> \o host \o <<"]",":">> \o port
    ELSE host \o <<":">> \o port

\* the part of a URL between "://" and the next "/"
URLAuthority(url) ==
    LET sep   == <<":","/","/">>
        i     == CHOOSE k \in 0..Len(url) :
                     /\ k + 3 <= Len(url) => SubSeq(url, k + 1, k + 3) = sep
                     /\ \A j \in 0..(k - 1) :
                            j + 3 > Len(url) \/ SubSeq(url, j + 1, j + 3) # sep
        rest  == SubSeq(url, i + 4, Len(url))
        stop  == CHOOSE k \in 1..(Len(rest) + 1) :
                     /\ k <= Len(rest) => rest[k] = "/"
                     /\ \A j \in 1..(k - 1) : rest[j] # "/"
    IN  SubSeq(rest, 1, stop - 1)

\* http.NewRequest("GET", url, nil): nil (<<>>) or the text of the URL
\* parse error; a space in the host is rejected
NewRequestError(url) ==
    IF Contains(URLAuthority(url), <<" ">>)
    THEN <<"p","a","r","s","e"," ","\"">> \o url \o
         <<"\"",":"," ","i","n","v","a","l","i","d"," ","c","h","a","r","a",
           "c","t","e","r"," ","\""," ","\""," ","i","n"," ","h","o","s","t",
           " ","n","a","m","e">>
    ELSE <<>>

-----------------------------------------------------------------------------
(* testTCPConnection *)

\* if test.Timeout == 0 { test.Timeout = timeout }
tcpTimeout(test) ==
    IF test.Timeout = 0 THEN [test EXCEPT !.Timeout = timeout] ELSE test

\* the connection returned by net.DialTimeout is assigned to _ and never
\* closed
tcpHeld(nr, err) ==
    IF err = <<>> THEN { <<nr, "conn">> } ELSE {}

\* dial is the outcome of net.DialTimeout
testTCPConnection(nr, test0, dial) ==
    LET test  == tcpTimeout(test0)
        rd0   == [ZeroResponseDetails EXCEPT !.Request = test, !.Success = FALSE]
        addr  == JoinHostPort(test.Host, Itoa(test.Port))
        rd1   == IF dial.err # <<>>
                 THEN [rd0 EXCEPT !.FailureMessage = dial.err]
                 ELSE [rd0 EXCEPT !.Success = TRUE]
    IN  [resp |-> [rd1 EXCEPT !.Time = DurationString(dial.ms)],
         io   |-> << IOEvent(nr, "dial", addr, test.Timeout, dial.err, 0) >>,
         held |-> tcpHeld(nr, dial.err)]

-----------------------------------------------------------------------------
(* testHTTPConnection *)

\* mutant of httpTimeout: the flag replaces every per-target timeout
httpTimeoutFlagWins(test) == [test EXCEPT !.Timeout = timeout]

\* if test.Timeout == 0 { test.Timeout = timeout }
httpTimeout(test) ==
    IF test.Timeout = 0 THEN [test EXCEPT !.Timeout = timeout] ELSE test

\* mutant of normalizePath: the empty path is left alone
normalizePathNonEmpty(test) ==
    IF test.Path # <<>> /\ ~HasPrefix(test.Path, <<"/">>)
    THEN [test EXCEPT !.Path = <<"/">> \o test.Path]
    ELSE test

\* if !strings.HasPrefix(test.Path, "/") { test.Path = "/" + test.Path }
normalizePath(test) ==
    IF ~HasPrefix(test.Path, <<"/">>)
    THEN [test EXCEPT !.Path = <<"/">> \o test.Path]
    ELSE test

\* fmt.Sprintf("%s://%s:%d%s", test.Proto, test.Host, test.Port, test.Path)
requestURL(test) ==
    test.Proto \o <<":","/","/">> \o test.Host \o <<":">> \o Itoa(test.Port)
        \o test.Path

\* mutant of resolvedStatus: the text of the nil address is left in place
\* when the lookup failed
resolvedStatusNoSentinel(dns) == dns.addr

\* respDetails.IPResolvedStatus = ipRes.String(), replaced by the fixed
\* text when the lookup returned an error
resolvedStatus(dns) ==
    IF dns.err # <<>> THEN ResolveFailed ELSE dns.addr

\* the branch taken when client.Do returned an error
httpFailed(rd, rt) == [rd EXCEPT !.FailureMessage = rt.err]

\* mutant of captureBody: the payload is read whatever CaptureBody says
captureBodyAlways(rd, test, read) == [rd EXCEPT !.Body = read.data]

\* if test.CaptureBody == true: the bytes returned by ioutil.ReadAll are
\* stored before the read error is looked at
captureBody(rd, test, read) ==
    IF test.CaptureBody THEN [rd EXCEPT !.Body = read.data] ELSE rd

\* mutant of httpSucceeded: a 4xx / 5xx response counts as a failure
httpSucceededOnlyBelow400(rd, test, rt, read) ==
    captureBody([rd EXCEPT !.Status = rt.StatusCode,
                           !.Success = (rt.StatusCode < 400)],
                test, read)

\* the branch taken when client.Do returned a response
httpSucceeded(rd, test, rt, read) ==
    captureBody([rd EXCEPT !.Status = rt.StatusCode, !.Success = TRUE],
                test, read)

\* the response body is opened by client.Do and closed by the deferred
\* resp.Body.Close() when the probe returns
httpHeld(nr, rt) ==
    LET opened == IF rt.err = <<>> THEN { <<nr, "body">> } ELSE {}
        closed == IF rt.err = <<>> THEN { <<nr, "body">> } ELSE {}
    IN  opened \ closed

\* the network operations of a probe that got past request construction
httpIO(nr, test, url, dns, rt, read) ==
    << IOEvent(nr, "resolve", test.Host, 0, dns.err, 0),
       IOEvent(nr, "get", url, test.Timeout, rt.err, rt.StatusCode) >>
    \o IF rt.err = <<>> /\ test.CaptureBody
       THEN << IOEvent(nr, "read", url, test.Timeout, read.err, 0) >>
       ELSE <<>>

\* time.Since(startTime): the lookup, the round trip and, when the body is
\* captured, the read
httpElapsed(test, dns, rt, read) ==
    dns.ms + rt.ms + (IF rt.err = <<>> /\ test.CaptureBody THEN read.ms ELSE 0)

\* mutant of testHTTPConnection: the lookup is made before the request is
\* built, so it also happens when building the request fails
testHTTPConnectionResolveFirst(nr, test0, dns, rt, read) ==
    LET test1      == httpTimeout(test0)
        rd0        == [ZeroResponseDetails EXCEPT !.Request = test1,
                                                  !.Success = FALSE]
        test       == normalizePath(test1)
        url        == requestURL(test)
        errRequest == NewRequestError(url)
        rd1        == [rd0 EXCEPT !.IPResolvedStatus = resolvedStatus(dns)]
        rd2        == IF rt.err # <<>>
                      THEN httpFailed(rd1, rt)
                      ELSE httpSucceeded(rd1, test, rt, read)
    IN  IF errRequest # <<>>
        THEN [resp |-> [rd1 EXCEPT !.FailureMessage = errRequest],
              io   |-> << IOEvent(nr, "resolve", test.Host, 0, dns.err, 0) >>,
              held |-> {}]
        ELSE [resp |-> [rd2 EXCEPT !.Time =
                            DurationString(httpElapsed(test, dns, rt, read))],
              io   |-> httpIO(nr, test, url, dns, rt, read),
              held |-> httpHeld(nr, rt)]

\* dns, rt and read are the outcomes of net.ResolveIPAddr, client.Do and
\* ioutil.ReadAll
testHTTPConnection(nr, test0, dns, rt, read) ==
    LET test1      == httpTimeout(test0)
        rd0        == [ZeroResponseDetails EXCEPT !.Request = test1,
                                                  !.Success = FALSE]
        test       == normalizePath(test1)
        url        == requestURL(test)
        errRequest == NewRequestError(url)
        rd1        == [rd0 EXCEPT !.IPResolvedStatus = resolvedStatus(dns)]
        rd2        == IF rt.err # <<>>
                      THEN httpFailed(rd1, rt)
                      ELSE httpSucceeded(rd1, test, rt, read)
    IN  IF errRequest # <<>>
        THEN [resp |-> [rd0 EXCEPT !.FailureMessage = errRequest],
              io   |-> <<>>,
              held |-> {}]
        ELSE [resp |-> [rd2 EXCEPT !.Time =
                            DurationString(httpElapsed(test, dns, rt, read))],
              io   |-> httpIO(nr, test, url, dns, rt, read),
              held |-> httpHeld(nr, rt)]

-----------------------------------------------------------------------------
(* parseConfig *)

LocConfigYaml == <<"c","o","n","f","i","g",".","y","a","m","l">>
LocRemote     == <<"h","t","t","p",":","/","/","a",".","i","o","/","c",".","y","a","m","l">>
LocHttpdYaml  == <<"h","t","t","p","d",".","y","a","m","l">>

\* values of the -config flag: the default local file, a web location, and
\* a local file whose name starts with "http"
Locations == { LocConfigYaml, LocRemote, LocHttpdYaml }

\* errors.New("Nettest config was invalid or didn't contain any test cases")
ErrInvalidConfig ==
    <<"N","e","t","t","e","s","t"," ","c","o","n","f","i","g"," ","w","a","s"," ","i","n","v","a","l","i","d"," ","o","r"," ","d","i","d","n","'","t"," ","c","o","n","t","a","i","n"," ","a","n","y"," ","t","e","s","t"," ","c","a","s","e","s">>

\* One entry of the `config` list of a YAML document: the fields as
\* written, and whether the value written for port is no integer.
YamlEntry(fields, badPort) == [fields |-> fields, badPort |-> badPort]

\* A YAML document: whether it parses as YAML at all, and its entries.
YamlDoc(syntaxOK, entries) == [syntaxOK |-> syntaxOK, entries |-> entries]

YamlEntries ==
    { YamlEntry(Configuration(Name1, HostOK, PathEmpty, 80, ProtoTcp, 0, FALSE),
                FALSE),
      YamlEntry(Configuration(Name2, HostOK, PathFoo, 443, ProtoHTTPS, 5, TRUE),
                FALSE),
      YamlEntry(Configuration(Name2, HostOK, PathEmpty, 21, ProtoFtp, 0, FALSE),
                FALSE),
      YamlEntry(Configuration(Name3, HostOK, PathBar, 80, ProtoHttp, 0, FALSE),
                TRUE) }

YamlDocs ==
    { YamlDoc(FALSE, <<>>) }
    \cup { YamlDoc(TRUE, es) :
               es \in UNION { SeqsOfLen(YamlEntries, n) : n \in 0..MaxTargets } }

\* what may lie at a location: nothing that can be read or fetched, or a
\* document
Sources ==
    { [readable |-> FALSE, data |-> YamlDoc(FALSE, <<>>)] }
    \cup { [readable |-> TRUE, data |-> d] : d \in YamlDocs }

\* the file from which a target list was loaded
SourceOf(targets) ==
    [readable |-> TRUE,
     data |-> YamlDoc(TRUE, [i \in 1..Len(targets) |->
                                 YamlEntry(targets[i], FALSE)])]

\* yaml.Unmarshal of one entry: a value that does not fit its field is
\* reported and the field keeps its zero value
decodeEntry(e) ==
    IF e.badPort THEN [e.fields EXCEPT !.Port = 0] ELSE e.fields

\* yaml.Unmarshal(configData, &config), config being empty before: a
\* document that is no YAML leaves config alone; otherwise every entry is
\* decoded, and an error is returned when some value did not fit
yamlUnmarshal(data) ==
    IF ~data.syntaxOK
    THEN [config |-> <<>>, failed |-> TRUE]
    ELSE [config |-> [i \in 1..Len(data.entries) |->
                          decodeEntry(data.entries[i])],
          failed |-> \E i \in 1..Len(data.entries) : data.entries[i].badPort]

\* client.Do can fetch only http:// and https:// locations
IsWebLocation(location) ==
    \/ HasPrefix(ToLower(location), <<"h","t","t","p",":","/","/">>)
    \/ HasPrefix(ToLower(location), <<"h","t","t","p","s",":","/","/">>)

\* downloadConfig: the body, or an error
downloadConfig(location, src) ==
    IF IsWebLocation(location) /\ src.readable
    THEN [data |-> src.data, failed |-> FALSE]
    ELSE [data |-> YamlDoc(FALSE, <<>>), failed |-> TRUE]

\* ioutil.ReadFile: the content, or an error
readFile(location, src) ==
    IF src.readable
    THEN [data |-> src.data, failed |-> FALSE]
    ELSE [data |-> YamlDoc(FALSE, <<>>), failed |-> TRUE]

\* strings.HasPrefix(strings.ToLower(fileLocation), "http")
looksRemote(location) == HasPrefix(ToLower(location), <<"h","t","t","p">>)

\* the last statements of parseConfig: the error is decided by the number
\* of entries alone; the errors of the read, of the download and of
\* yaml.Unmarshal are dropped
parseResult(cfg) ==
    [config |-> cfg,
     err    |-> IF Len(cfg) < 1 THEN ErrInvalidConfig ELSE <<>>]

\* parseConfig(fileLocation), src being what lies at the location
parseConfig(location, src) ==
    LET got == IF looksRemote(location)
               THEN downloadConfig(location, src)
               ELSE readFile(location, src)
        cfg == IF got.failed THEN <<>> ELSE yamlUnmarshal(got.data).config
    IN  parseResult(cfg)

ParseInit ==
    /\ config = <<>>
    /\ timeout = DefaultTimeout
    /\ testNr = 0
    /\ results = <<>>
    /\ pc = "parse"
    /\ ioLog = <<>>
    /\ held = {}
    /\ fileLocation \in Locations
    /\ source \in Sources
    /\ parseErr = <<>>

\* parseConfig on a location starting with "http"
ParseRemote ==
    /\ pc = "parse"
    /\ looksRemote(fileLocation)
    /\ config' = parseConfig(fileLocation, source).config
    /\ parseErr' = parseConfig(fileLocation, source).err
    /\ pc' = "parsed"
    /\ UNCHANGED <<timeout, testNr, results, ioLog, held, fileLocation, source>>

\* parseConfig on any other location
ParseLocal ==
    /\ pc = "parse"
    /\ ~looksRemote(fileLocation)
    /\ config' = parseConfig(fileLocation, source).config
    /\ parseErr' = parseConfig(fileLocation, source).err
    /\ pc' = "parsed"
    /\ UNCHANGED <<timeout, testNr, results, ioLog, held, fileLocation, source>>

ParseNext == ParseRemote \/ ParseLocal

ParseSpec == ParseInit /\ [][ParseNext]_vars

-----------------------------------------------------------------------------
(* runTests *)

\* mutant of route: the protocol is compared as written
routeCaseSensitive(netTest) ==
    IF netTest.Proto = <<"h","t","t","p">>
       \/ netTest.Proto = <<"h","t","t","p","s">>
    THEN "http"
    ELSE IF netTest.Proto = <<"t","c","p">> THEN "tcp" ELSE "invalid"

\* lowerCaseProto := strings.ToLower(netTest.Proto) and the if / else if
\* chain on it
route(netTest) ==
    LET lowerCaseProto == ToLower(netTest.Proto)
    IN  IF lowerCaseProto = <<"h","t","t","p">>
           \/ lowerCaseProto = <<"h","t","t","p","s">>
        THEN "http"
        ELSE IF lowerCaseProto = <<"t","c","p">> THEN "tcp" ELSE "invalid"

\* mutant of failureCause: the message does not name the host
failureCauseNoHost(nr, netTest) ==
    <<"[">> \o Itoa(nr) \o
    <<"]"," ","p","r","o","t","o","c","o","l"," ","\"">>
    \o ToLower(netTest.Proto) \o
    <<"\""," ","i","s"," ","i","n","v","a","l","i","d",".","\n">>

\* fmt.Sprintf of the configuration error
failureCause(nr, netTest) ==
    <<"[">> \o Itoa(nr) \o
    <<"]"," ","C","o","n","f","i","g","u","r","s","t","i","o","n"," ","e","r",
      "r","o","r",":"," ","p","r","o","t","o","c","o","l"," ","\"">>
    \o ToLower(netTest.Proto) \o
    <<"\""," ","s","p","e","c","i","f","i","e","d"," ","f","o","r"," ","h",
      "o","s","t"," ","\"">>
    \o netTest.Host \o
    <<"\""," ","i","s"," ","i","n","v","a","l","i","d","."," ","M","u","s",
      "t"," ","b","e"," ","T","C","P",","," ","H","T","T","P",","," ","o",
      "r"," ","H","T","T","P","S",".","\n">>

\* mutant of invalidProtocol: the record does not carry the request
invalidProtocolNoRequest(nr, netTest) ==
    [ZeroResponseDetails EXCEPT !.FailureMessage = failureCause(nr, netTest)]

\* the else branch: resp.Request = netTest; resp.FailureMessage = failureCause
invalidProtocol(nr, netTest) ==
    [ZeroResponseDetails EXCEPT !.Request = netTest,
                                !.FailureMessage = failureCause(nr, netTest)]

\* mutant of appendResult: a failed probe ends up outside the result list
appendResultDropFailed(rs, resp) ==
    IF resp.Success THEN Append(rs, resp) ELSE rs

\* results = append(results, resp)
appendResult(rs, resp) == Append(rs, resp)

Init ==
    /\ config \in UNION { SeqsOfLen(Targets, n) : n \in 1..MaxTargets }
    /\ timeout \in TimeoutFlags
    /\ testNr = 0
    /\ results = <<>>
    /\ pc = "loop"
    /\ ioLog = <<>>
    /\ held = {}
    /\ fileLocation = LocConfigYaml
    /\ source = SourceOf(config)
    /\ parseErr = <<>>

\* one iteration of the range loop, on an http or https target
HTTPTest ==
    /\ pc = "loop"
    /\ testNr < Len(config)
    /\ route(config[testNr + 1]) = "http"
    /\ \E dns \in DNSOutcomes, rt \in RoundTripOutcomes,
          read \in ReadOutcomes :
          LET r == testHTTPConnection(testNr, config[testNr + 1],
                                      dns, rt, read)
          IN  /\ results' = appendResult(results, r.resp)
              /\ ioLog' = ioLog \o r.io
              /\ held' = held \cup r.held
    /\ testNr' = testNr + 1
    /\ UNCHANGED <<config, timeout, pc>>
    /\ UNCHANGED parseVars

\* one iteration of the range loop, on a tcp target
TCPTest ==
    /\ pc = "loop"
    /\ testNr < Len(config)
    /\ route(config[testNr + 1]) = "tcp"
    /\ \E dial \in DialOutcomes(tcpTimeout(config[testNr + 1]).Timeout) :
          LET r == testTCPConnection(testNr, config[testNr + 1], dial)
          IN  /\ results' = appendResult(results, r.resp)
              /\ ioLog' = ioLog \o r.io
              /\ held' = held \cup r.held
    /\ testNr' = testNr + 1
    /\ UNCHANGED <<config, timeout, pc>>
    /\ UNCHANGED parseVars

\* one iteration of the range loop, on a target of any other protocol
InvalidTest ==
    /\ pc = "loop"
    /\ testNr < Len(config)
    /\ route(config[testNr + 1]) = "invalid"
    /\ results' = appendResult(results,
                               invalidProtocol(testNr, config[testNr + 1]))
    /\ testNr' = testNr + 1
    /\ UNCHANGED <<config, timeout, pc, ioLog, held>>
    /\ UNCHANGED parseVars

\* the range is exhausted: return results
Return ==
    /\ pc = "loop"
    /\ testNr = Len(config)
    /\ pc' = "done"
    /\ UNCHANGED <<config, timeout, testNr, results, ioLog, held>>
    /\ UNCHANGED parseVars

Next == HTTPTest \/ TCPTest \/ InvalidTest \/ Return

Spec == Init /\ [][Next]_vars

-----------------------------------------------------------------------------
(* Vocabulary of the properties *)

SupportedProtos == { <<"t","c","p">>, <<"h","t","t","p">>,
                     <<"h","t","t","p","s">> }

IsHTTPTarget(t) ==
    ToLower(t.Proto) \in { <<"h","t","t","p">>, <<"h","t","t","p","s">> }

IsTCPTarget(t) == ToLower(t.Proto) = <<"t","c","p">>

IsUnsupported(t) == ToLower(t.Proto) \notin SupportedProtos

\* the entries of ioLog made for target number nr (0-based) by operation op
Events(nr, op) ==
    { k \in 1..Len(ioLog) : ioLog[k].nr = nr /\ ioLog[k].op = op }

EventsOf(nr) == { k \in 1..Len(ioLog) : ioLog[k].nr = nr }

\* <protocol>://<host>:<port>
URLBase(t) ==
    t.Proto \o <<":","/","/">> \o t.Host \o <<":">> \o Itoa(t.Port)

-----------------------------------------------------------------------------
(* C1 *)

\* C1: runTests returns exactly one record per target, record i being the
\* outcome of target i, and a failed target does not stop the loop: while
\* the loop runs there is one record per target already visited, and when
\* runTests has returned there are Len(config) records.  Record i echoes
\* target i, the network operations made for position i address target
\* i's host, and record i reports success exactly when the dial or the
\* GET made for position i succeeded.
C1_OneRecordPerTarget ==
    /\ Len(results) = testNr
    /\ pc = "done" => Len(results) = Len(config)
    /\ \A i \in 1..Len(results) :
          /\ results[i].Request.NetworkName = config[i].NetworkName
          /\ results[i].Request.Host = config[i].Host
          /\ results[i].Request.Port = config[i].Port
          /\ results[i].Request.Proto = config[i].Proto
          /\ \A k \in EventsOf(i - 1) :
                 Contains(ioLog[k].addr, config[i].Host)
          /\ results[i].Success <=>
                 \E k \in EventsOf(i - 1) :
                     ioLog[k].op \in { "dial", "get" } /\ ioLog[k].err = <<>>

\* runTests has returned after a failed first target and a later target
C1_Witness ==
    /\ pc = "done"
    /\ Len(config) >= 2
    /\ config[1] # config[2]
    /\ ~results[1].Success
    /\ results[2].Success

-----------------------------------------------------------------------------
(* C2 *)

-----------------------------------------------------------------------------
(* C3 *)

\* C3: every record in the result list has its elapsed time populated
\* (non-empty, not negative), whatever the outcome.
C3_ElapsedAlwaysPopulated ==
    \A i \in 1..Len(results) :
        /\ results[i].Time # <<>>
        /\ results[i].Time[1] # "-"

-----------------------------------------------------------------------------
(* C4 *)

\* C4 as stated: the URL requested is <protocol>://<host>:<port><path>, with
\* "/" put in front of a non-empty path that lacks it and the empty path
\* left empty.
C4_EmptyPathStaysEmpty ==
    \A k \in 1..Len(ioLog) :
        ioLog[k].op = "get" =>
            LET t == config[ioLog[k].nr + 1]
            IN  ioLog[k].addr =
                    URLBase(t) \o
                    (IF t.Path = <<>> THEN <<>>
                     ELSE IF t.Path[1] = "/" THEN t.Path
                     ELSE <<"/">> \o t.Path)

\* C4 amended: the URL requested is <protocol>://<host>:<port><path>, with
\* "/" put in front of every path that does not start with it, the empty
\* path included, and a path starting with "/" unchanged.
C4_SlashPrependedUnlessPresent ==
    \A k \in 1..Len(ioLog) :
        ioLog[k].op = "get" =>
            LET t == config[ioLog[k].nr + 1]
            IN  ioLog[k].addr =
                    URLBase(t) \o
                    (IF t.Path # <<>> /\ t.Path[1] = "/" THEN t.Path
                     ELSE <<"/">> \o t.Path)

\* requests were made for an empty path and for a path without a slash
C4_Witness ==
    /\ \E k \in 1..Len(ioLog) :
          ioLog[k].op = "get" /\ config[ioLog[k].nr + 1].Path = <<>>
    /\ \E k \in 1..Len(ioLog) :
          ioLog[k].op = "get" /\ config[ioLog[k].nr + 1].Path = PathFoo

-----------------------------------------------------------------------------
(* C5 *)

\* C5 as stated: the request echoed in record i equals target i in every
\* field other than path, a timeout of 0 included.
C5_EchoEqualsInput ==
    \A i \in 1..Len(results) :
        [results[i].Request EXCEPT !.Path = config[i].Path] = config[i]

\* the echoed request against the target, timeout aside
EchoKeepsFields(r, t) ==
    /\ r.NetworkName = t.NetworkName
    /\ r.Host = t.Host
    /\ r.Port = t.Port
    /\ r.Proto = t.Proto
    /\ r.CaptureBody = t.CaptureBody

\* C5 amended: the request echoed in record i equals target i in name,
\* host, port, protocol (original letter case) and capture_body; its
\* timeout is the target's, except that a target with timeout 0 handed to a
\* probe is echoed with the run-wide default; the input list never changes.
C5_EchoEqualsInputButTimeout ==
    /\ [](\A i \in 1..Len(results) :
             /\ EchoKeepsFields(results[i].Request, config[i])
             /\ results[i].Request.Timeout =
                    IF config[i].Timeout = 0 /\ ~IsUnsupported(config[i])
                    THEN timeout
                    ELSE config[i].Timeout)
    /\ [][config' = config]_vars

\* records exist for a probed target with timeout 0 and for a target of
\* an unsupported protocol written in mixed case
C5_Witness ==
    /\ pc = "done"
    /\ \E i \in 1..Len(results) :
          /\ config[i].Timeout = 0
          /\ ~IsUnsupported(config[i])
          /\ results[i].Request.Timeout = timeout
    /\ \E i \in 1..Len(results) :
          /\ IsUnsupported(config[i])
          /\ results[i].Request.Proto = ProtoFtpMx

-----------------------------------------------------------------------------
(* C6 *)

\* C6 as stated: a target of an unsupported protocol yields success =
\* false, status_code = 0 and a message containing the target's protocol
\* value and its host, and no network operation is made for it.
C6_MessageNamesProtocol ==
    \A i \in 1..Len(results) :
        IsUnsupported(config[i]) =>
            /\ ~results[i].Success
            /\ results[i].Status = 0
            /\ Contains(results[i].FailureMessage, config[i].Proto)
            /\ Contains(results[i].FailureMessage, config[i].Host)
            /\ EventsOf(i - 1) = {}

\* C6 amended: a target of an unsupported protocol yields success = false,
\* status_code = 0 and a message containing the target's protocol value in
\* lower case and its host, and no network operation is made for it.
C6_MessageNamesLowerCaseProtocol ==
    \A i \in 1..Len(results) :
        IsUnsupported(config[i]) =>
            /\ ~results[i].Success
            /\ results[i].Status = 0
            /\ Contains(results[i].FailureMessage, ToLower(config[i].Proto))
            /\ Contains(results[i].FailureMessage, config[i].Host)
            /\ EventsOf(i - 1) = {}

\* an unsupported target was recorded next to a target that was probed
C6_Witness ==
    /\ \E i \in 1..Len(results) :
          IsUnsupported(config[i]) /\ results[i].FailureMessage # <<>>
    /\ ioLog # <<>>

-----------------------------------------------------------------------------
(* C7 *)

\* C7: after any probe has returned, no connection or response body opened
\* by a probe is still held.
C7_NothingHeld == held = {}

-----------------------------------------------------------------------------
(* C8 *)

\* C8: when reading the response payload fails, the record keeps success =
\* true and an empty failure_message, and its body is empty.
C8_FailedReadLeavesBodyEmpty ==
    \A k \in 1..Len(ioLog) :
        (ioLog[k].op = "read" /\ ioLog[k].err # <<>>) =>
            LET r == results[ioLog[k].nr + 1]
            IN  /\ r.Success
                /\ r.FailureMessage = <<>>
                /\ r.Body = <<>>

-----------------------------------------------------------------------------
(* C9 *)

\* C9: a record's body is non-empty only if the target is HTTP/HTTPS,
\* capture_body is true and the round trip succeeded; so it is empty with
\* capture_body false, for TCP and unsupported targets and for failed HTTP
\* probes.
C9_BodyOnlyWhenCaptured ==
    \A i \in 1..Len(results) :
        results[i].Body # <<>> =>
            /\ IsHTTPTarget(config[i])
            /\ config[i].CaptureBody
            /\ \E k \in Events(i - 1, "get") : ioLog[k].err = <<>>

\* one record holds the payload, and a successful HTTP probe without
\* capture_body holds none
C9_Witness ==
    /\ \E i \in 1..Len(results) : results[i].Body = Payload
    /\ \E i \in 1..Len(results) :
          /\ IsHTTPTarget(config[i])
          /\ ~config[i].CaptureBody
          /\ results[i].Success
          /\ results[i].Body = <<>>

-----------------------------------------------------------------------------
(* C10 *)

\* C10: for an HTTP target, success is true exactly when client.Do returned
\* a response, whatever its status code; then status_code is that code and
\* failure_message is empty.  When client.Do returned an error, success is
\* false, status_code is 0 and failure_message is the error text.
C10_SuccessIffRoundTrip ==
    \A i \in 1..Len(results) :
        IsHTTPTarget(config[i]) =>
            /\ results[i].Success <=>
                   \E k \in Events(i - 1, "get") : ioLog[k].err = <<>>
            /\ \A k \in Events(i - 1, "get") :
                   IF ioLog[k].err = <<>>
                   THEN /\ results[i].Success
                        /\ results[i].Status = ioLog[k].code
                        /\ results[i].FailureMessage = <<>>
                   ELSE /\ ~results[i].Success
                        /\ results[i].Status = 0
                        /\ results[i].FailureMessage = ioLog[k].err

\* a 404 response recorded as a success, next to a transport failure
C10_Witness ==
    /\ \E i \in 1..Len(results) :
          results[i].Success /\ results[i].Status = 404
    /\ \E i \in 1..Len(results) :
          /\ IsHTTPTarget(config[i])
          /\ results[i].FailureMessage = ErrRefused

-----------------------------------------------------------------------------
(* C11 *)

\* C11: the IPv4 lookup of an HTTP probe never decides the outcome.  Every
\* lookup is followed at once by the GET of the same target; the record's
\* success and failure_message are those of the GET alone; and its
\* resolved_address is the fixed text "Failed to resolve IP from DNS." when
\* the lookup failed and the address text when it succeeded.
C11_LookupOnlyInforms ==
    \A k \in 1..Len(ioLog) :
        ioLog[k].op = "resolve" =>
            /\ k < Len(ioLog)
            /\ ioLog[k + 1].op = "get"
            /\ ioLog[k + 1].nr = ioLog[k].nr
            /\ LET r == results[ioLog[k].nr + 1]
               IN  /\ r.Success = (ioLog[k + 1].err = <<>>)
                   /\ r.FailureMessage = ioLog[k + 1].err
                   /\ r.IPResolvedStatus =
                          IF ioLog[k].err # <<>> THEN ResolveFailed
                          ELSE AddrText

\* runTests has returned; one lookup failed and its GET succeeded all the
\* same, and one lookup succeeded and its GET failed
C11_Witness ==
    /\ pc = "done"
    /\ \E i \in 1..Len(results) :
          results[i].IPResolvedStatus = ResolveFailed /\ results[i].Success
    /\ \E i \in 1..Len(results) :
          /\ results[i].IPResolvedStatus = AddrText
          /\ ~results[i].Success

-----------------------------------------------------------------------------
(* C12 *)

\* a and b are the same letter in either case, or the same character
SameLetter(a, b) ==
    \/ a = b
    \/ \E i \in 1..26 : { a, b } = { UpperCase[i], LowerCase[i] }

\* s is t in some letter case
CaseVariant(s, t) ==
    /\ Len(s) = Len(t)
    /\ \A i \in 1..Len(s) : SameLetter(s[i], t[i])

\* C12: routing is case-insensitive and exclusive.  A target whose protocol
\* is any letter-case variant of tcp gets exactly one dial and no lookup,
\* GET or body read; a target whose protocol is any letter-case variant of
\* http or https gets no dial and at most one lookup and one GET (none only
\* when building the request failed).
C12_RoutingIgnoresCase ==
    \A i \in 1..Len(results) :
        LET p == config[i].Proto
        IN  /\ CaseVariant(p, <<"t","c","p">>) =>
                  /\ Cardinality(Events(i - 1, "dial")) = 1
                  /\ EventsOf(i - 1) = Events(i - 1, "dial")
            /\ (CaseVariant(p, <<"h","t","t","p">>)
                \/ CaseVariant(p, <<"h","t","t","p","s">>)) =>
                  /\ Events(i - 1, "dial") = {}
                  /\ Cardinality(Events(i - 1, "get")) <= 1
                  /\ Cardinality(Events(i - 1, "resolve")) <= 1
                  /\ \/ Events(i - 1, "get") # {}
                     \/ HasPrefix(results[i].FailureMessage,
                                  <<"p","a","r","s","e"," ">>)

\* a target written Tcp was dialled and a target written HTTPS was requested
C12_Witness ==
    /\ \E i \in 1..Len(results) :
          config[i].Proto = ProtoTcpMx /\ Events(i - 1, "dial") # {}
    /\ \E i \in 1..Len(results) :
          config[i].Proto = ProtoHTTPS /\ Events(i - 1, "get") # {}

-----------------------------------------------------------------------------
(* C15 *)

\* the URL of target t cannot be parsed: its host holds a space
BuildFails(t) == Contains(t.Host, <<" ">>)

\* C15: when building the GET request of an HTTP target fails, the record
\* has success = false, failure_message equal to the construction error, an
\* empty resolved_address and status_code 0, and neither lookup nor GET was
\* made for it.  For every other HTTP target exactly one lookup was made,
\* and the GET of that target follows it directly; so a lookup is only ever
\* made for a request that could be built.
C15_NoLookupWithoutRequest ==
    \A i \in 1..Len(results) :
        IsHTTPTarget(config[i]) =>
            IF BuildFails(config[i])
            THEN /\ ~results[i].Success
                 /\ results[i].FailureMessage # <<>>
                 /\ results[i].FailureMessage =
                        NewRequestError(requestURL(normalizePath(config[i])))
                 /\ results[i].IPResolvedStatus = <<>>
                 /\ results[i].Status = 0
                 /\ EventsOf(i - 1) = {}
            ELSE /\ Cardinality(Events(i - 1, "resolve")) = 1
                 /\ \A k \in Events(i - 1, "resolve") :
                        /\ k < Len(ioLog)
                        /\ ioLog[k + 1].op = "get"
                        /\ ioLog[k + 1].nr = i - 1
                        /\ \A j \in Events(i - 1, "get") : j = k + 1

\* a target whose request could not be built was recorded, and another
\* target was looked up and requested
C15_Witness ==
    /\ \E i \in 1..Len(results) :
          /\ IsHTTPTarget(config[i])
          /\ BuildFails(config[i])
          /\ HasPrefix(results[i].FailureMessage, <<"p","a","r","s","e"," ">>)
    /\ \E k \in 1..Len(ioLog) : ioLog[k].op = "get"

-----------------------------------------------------------------------------
(* C14 *)

\* the program was run with a -timeout flag
FlagSpecified == timeout # DefaultTimeout

\* C14: when the -timeout flag is specified, every dial and every HTTP
\* request is made with the flag's value, whatever the target's own timeout;
\* the target's own timeout is used only when the flag is not specified.
C14_FlagOverridesTargets ==
    \A k \in 1..Len(ioLog) :
        ioLog[k].op \in { "dial", "get" } =>
            LET t == config[ioLog[k].nr + 1]
            IN  IF FlagSpecified
                THEN ioLog[k].timeout = timeout
                ELSE ioLog[k].timeout =
                         IF t.Timeout # 0 THEN t.Timeout ELSE timeout

-----------------------------------------------------------------------------
(* C13 *)

\* the configuration at the location is valid: it can be read or, for a
\* location taken to be remote, fetched; it decodes as YAML without error;
\* and it lists at least one test case
ValidConfiguration(location, src) ==
    /\ src.readable
    /\ looksRemote(location) => IsWebLocation(location)
    /\ src.data.syntaxOK
    /\ \A i \in 1..Len(src.data.entries) : ~src.data.entries[i].badPort
    /\ Len(src.data.entries) >= 1

\* C13: parseConfig returns a non-nil error for every configuration that is
\* not valid, and for a valid one a nil error and one Configuration per
\* listed entry, in file order, with the entry's fields.
C13_ErrorIffInvalid ==
    pc = "parsed" =>
        IF ValidConfiguration(fileLocation, source)
        THEN /\ parseErr = <<>>
             /\ config = [i \in 1..Len(source.data.entries) |->
                              source.data.entries[i].fields]
        ELSE parseErr # <<>>

=============================================================================
